---- MODULE Spec2Model ----
(***************************************************************************)
(* Role-based access control and resource ownership in the expense         *)
(* tracker: the permission tables and decision functions, the request      *)
(* gate (requireAuth, requirePermission, the inline ownership checks of    *)
(* the route handlers), the in-memory store and the passport login.        *)
(***************************************************************************)
EXTENDS Integers, FiniteSets, Sequences, Bags, TLC

VARIABLES
    users,              \* MemStorage.users: id -> user record
    categories,         \* MemStorage.categories: id -> category record
    expenses,           \* MemStorage.expenses: id -> expense record
    userCurrentId,      \* MemStorage.userCurrentId
    categoryCurrentId,  \* MemStorage.categoryCurrentId
    expenseCurrentId,   \* MemStorage.expenseCurrentId
    sessions,           \* session store: the user ids that hold a login session
    req,                \* the request being handled, with its response
    nreq,               \* number of requests received so far
    call,               \* the last direct call of a decision function or middleware
    emailModule,        \* server/email.ts: "unloaded", "loaded" or "failed"
    registering         \* bag of the POST /api/register calls awaiting hashPassword

vars == <<users, categories, expenses, userCurrentId, categoryCurrentId,
          expenseCurrentId, sessions, req, nreq, call, emailModule, registering>>

store == <<users, categories, expenses, userCurrentId, categoryCurrentId,
           expenseCurrentId>>

(***************************************************************************)
(* Bounds of the model.                                                    *)
(***************************************************************************)
MaxRequests == 4
MaxUsers == 7
MaxExpenses == 1
MaxSessions == 2
MaxRegistering == 2

(***************************************************************************)
(* JavaScript values as the permission code sees them: a table lookup      *)
(* yields a number, undefined (no such key) or an object (a member         *)
(* inherited from Object.prototype); a relational comparison with a        *)
(* non-number is false (NaN).                                              *)
(***************************************************************************)
Num(n) == [t |-> "number", n |-> n]
JsUndefined == [t |-> "undefined", n |-> 0]
JsObject == [t |-> "object", n |-> 0]
PrototypeKeys == {"constructor"}

Lookup(table, key) ==
    IF key \in DOMAIN table THEN Num(table[key])
    ELSE IF key \in PrototypeKeys THEN JsObject
    ELSE JsUndefined

JsGeq(a, b) == a.t = "number" /\ b.t = "number" /\ a.n >= b.n

\* x || 0
OrZero(x) == IF x.t = "undefined" \/ (x.t = "number" /\ x.n = 0) THEN Num(0) ELSE x

(***************************************************************************)
(* shared/schema.ts                                                        *)
(***************************************************************************)
userRoles == {"admin", "manager", "accountant", "user"}
userStatus == {"pending", "active", "rejected"}
Undefined == "undefined"

(***************************************************************************)
(* server/permissions.ts: the hierarchy-threshold model the routes import. *)
(***************************************************************************)
roleHierarchy == [admin |-> 100, manager |-> 80, accountant |-> 60, user |-> 10]

featureAccessDeleteOpen ==
    [view_dashboard      |-> roleHierarchy.user,
     create_expense      |-> roleHierarchy.user,
     view_own_expenses   |-> roleHierarchy.user,
     edit_own_expenses   |-> roleHierarchy.user,
     delete_own_expenses |-> roleHierarchy.user,
     view_all_expenses   |-> roleHierarchy.accountant,
     edit_all_expenses   |-> roleHierarchy.accountant,
     delete_all_expenses |-> roleHierarchy.user,
     create_category     |-> roleHierarchy.accountant,
     view_categories     |-> roleHierarchy.user,
     edit_categories     |-> roleHierarchy.accountant,
     delete_categories   |-> roleHierarchy.accountant,
     view_reports        |-> roleHierarchy.user,
     export_reports      |-> roleHierarchy.accountant,
     view_users          |-> roleHierarchy.manager,
     create_users        |-> roleHierarchy.admin,
     edit_users          |-> roleHierarchy.admin,
     delete_users        |-> roleHierarchy.admin,
     edit_settings       |-> roleHierarchy.admin]

featureAccess ==
    [view_dashboard      |-> roleHierarchy.user,
     create_expense      |-> roleHierarchy.user,
     view_own_expenses   |-> roleHierarchy.user,
     edit_own_expenses   |-> roleHierarchy.user,
     delete_own_expenses |-> roleHierarchy.user,
     view_all_expenses   |-> roleHierarchy.accountant,
     edit_all_expenses   |-> roleHierarchy.accountant,
     delete_all_expenses |-> roleHierarchy.manager,
     create_category     |-> roleHierarchy.accountant,
     view_categories     |-> roleHierarchy.user,
     edit_categories     |-> roleHierarchy.accountant,
     delete_categories   |-> roleHierarchy.accountant,
     view_reports        |-> roleHierarchy.user,
     export_reports      |-> roleHierarchy.accountant,
     view_users          |-> roleHierarchy.manager,
     create_users        |-> roleHierarchy.admin,
     edit_users          |-> roleHierarchy.admin,
     delete_users        |-> roleHierarchy.admin,
     edit_settings       |-> roleHierarchy.admin]

hasPermissionCounting(userRole, feature) ==
    LET userLevel == Lookup(roleHierarchy, userRole)
        requiredLevel == Lookup(featureAccess, feature)
    IN  IF requiredLevel.t = "undefined" \/ nreq > 1 THEN FALSE
        ELSE JsGeq(userLevel, requiredLevel)

hasPermissionDefaultAllow(userRole, feature) ==
    LET userLevel == Lookup(roleHierarchy, userRole)
        requiredLevel == Lookup(featureAccess, feature)
    IN  IF requiredLevel.t = "undefined" THEN TRUE
        ELSE JsGeq(userLevel, requiredLevel)

hasPermissionStrict(userRole, feature) ==
    LET userLevel == Lookup(roleHierarchy, userRole)
        requiredLevel == Lookup(featureAccess, feature)
    IN  IF requiredLevel.t = "undefined" THEN FALSE
        ELSE userLevel.t = "number" /\ requiredLevel.t = "number"
             /\ userLevel.n > requiredLevel.n

hasPermission(userRole, feature) ==
    LET userLevel == Lookup(roleHierarchy, userRole)
        requiredLevel == Lookup(featureAccess, feature)
    IN  IF requiredLevel.t = "undefined" THEN FALSE
        ELSE JsGeq(userLevel, requiredLevel)

(***************************************************************************)
(* server/email.ts (second half): the per-role matrix model.               *)
(***************************************************************************)
featureAccessMatrix ==
    [create_expense      |-> [admin |-> 3, accountant |-> 2, manager |-> 1, user |-> 1],
     edit_all_expenses   |-> [admin |-> 3, accountant |-> 2, manager |-> 1, user |-> 0],
     delete_all_expenses |-> [admin |-> 3, accountant |-> 0, manager |-> 0, user |-> 0],
     create_category     |-> [admin |-> 3, accountant |-> 2, manager |-> 0, user |-> 0],
     edit_categories     |-> [admin |-> 3, accountant |-> 2, manager |-> 0, user |-> 0],
     delete_categories   |-> [admin |-> 3, accountant |-> 0, manager |-> 0, user |-> 0],
     export_reports      |-> [admin |-> 3, accountant |-> 2, manager |-> 1, user |-> 0],
     manage_users        |-> [admin |-> 3, accountant |-> 0, manager |-> 0, user |-> 0]]

\* (table[feature][role] || 0) >= 1, false when table[feature] is falsy;
\* an inherited member of the table has no role entries of its own.
MatrixLevel(table, role, feature) ==
    IF feature \in DOMAIN table THEN OrZero(Lookup(table[feature], role))
    ELSE IF role \in PrototypeKeys THEN JsObject
    ELSE Num(0)

MatrixHas(table, feature) == Lookup([f \in DOMAIN table |-> 1], feature).t # "undefined"

hasPermissionMatrixDefaultAllow(userRole, feature) ==
    IF ~MatrixHas(featureAccessMatrix, feature) THEN TRUE
    ELSE JsGeq(MatrixLevel(featureAccessMatrix, userRole, feature), Num(1))

hasPermissionMatrixStrict(userRole, feature) ==
    IF ~MatrixHas(featureAccessMatrix, feature) THEN FALSE
    ELSE LET level == MatrixLevel(featureAccessMatrix, userRole, feature)
         IN  level.t = "number" /\ level.n > 1

hasPermissionMatrix(userRole, feature) ==
    IF ~MatrixHas(featureAccessMatrix, feature) THEN FALSE
    ELSE JsGeq(MatrixLevel(featureAccessMatrix, userRole, feature), Num(1))

(***************************************************************************)
(* client/src/lib/permissions.ts: the client copy of the matrix.           *)
(***************************************************************************)
featureAccessClient ==
    [create_expense      |-> [admin |-> 3, accountant |-> 2, manager |-> 1, user |-> 1],
     edit_all_expenses   |-> [admin |-> 3, accountant |-> 2, manager |-> 1, user |-> 0],
     delete_all_expenses |-> [admin |-> 3, accountant |-> 0, manager |-> 0, user |-> 0],
     create_category     |-> [admin |-> 3, accountant |-> 2, manager |-> 0, user |-> 0],
     edit_categories     |-> [admin |-> 3, accountant |-> 2, manager |-> 0, user |-> 0],
     delete_categories   |-> [admin |-> 3, accountant |-> 0, manager |-> 0, user |-> 0],
     export_reports      |-> [admin |-> 3, accountant |-> 2, manager |-> 1, user |-> 0],
     manage_users        |-> [admin |-> 3, accountant |-> 0, manager |-> 0, user |-> 0]]

hasPermissionClient(role, feature) ==
    IF ~MatrixHas(featureAccessClient, feature) THEN FALSE
    ELSE JsGeq(MatrixLevel(featureAccessClient, role, feature), Num(1))

(***************************************************************************)
(* PermissionGuard component: the matrix embedded in the UI.               *)
(***************************************************************************)
featureAccessGuard ==
    [create_expense      |-> [admin |-> 3, accountant |-> 2, manager |-> 1, user |-> 1],
     edit_all_expenses   |-> [admin |-> 3, accountant |-> 2, manager |-> 1, user |-> 0],
     delete_all_expenses |-> [admin |-> 3, accountant |-> 0, manager |-> 0, user |-> 0],
     create_category     |-> [admin |-> 3, accountant |-> 2, manager |-> 0, user |-> 0],
     edit_categories     |-> [admin |-> 3, accountant |-> 2, manager |-> 0, user |-> 0],
     delete_categories   |-> [admin |-> 3, accountant |-> 0, manager |-> 0, user |-> 0],
     export_reports      |-> [admin |-> 3, accountant |-> 2, manager |-> 1, user |-> 0],
     manage_users        |-> [admin |-> 3, accountant |-> 0, manager |-> 0, user |-> 0]]

\* !role || !featureAccess[feature]
hasPermissionGuard(role, feature) ==
    IF role = Undefined \/ ~MatrixHas(featureAccessGuard, feature) THEN FALSE
    ELSE JsGeq(MatrixLevel(featureAccessGuard, role, feature), Num(1))

(***************************************************************************)
(* Inputs of the decision functions: the four roles, a user record without *)
(* a role, and every key of either table together with keys of neither.    *)
(***************************************************************************)
RoleInputs == userRoles \cup {Undefined}
CatalogueKeys == DOMAIN featureAccess \cup DOMAIN featureAccessMatrix
AbsentKeys == {"view_all_users", "approve_users", "constructor"}
FeatureKeys == CatalogueKeys \cup AbsentKeys

(***************************************************************************)
(* server/auth.ts (in storage.ts): password hashing.                       *)
(***************************************************************************)
Scrypt(password, salt) == <<"scrypt", password, salt>>

hashPassword(password) == [hashed |-> Scrypt(password, "salt"), salt |-> "salt"]

comparePasswordsAny(supplied, stored) == TRUE

comparePasswords(supplied, stored) == Scrypt(supplied, stored.salt) = stored.hashed

(***************************************************************************)
(* MemStorage                                                              *)
(***************************************************************************)
defaultCategories == <<"Office Supplies", "Travel", "Utilities", "Marketing", "Office Rent">>

defaultUsers ==
    << [username |-> "ajay", password |-> hashPassword("Ajay@1995"),
        email |-> "afarenziya@gmail.com", role |-> "admin", status |-> "active"],
       [username |-> "admin", password |-> hashPassword("password123"),
        email |-> "admin@ajayfarenziya.com", role |-> "admin", status |-> "active"],
       [username |-> "accountant", password |-> hashPassword("password123"),
        email |-> "accountant@ajayfarenziya.com", role |-> "accountant", status |-> "active"],
       [username |-> "manager", password |-> hashPassword("password123"),
        email |-> "manager@ajayfarenziya.com", role |-> "manager", status |-> "active"],
       [username |-> "user", password |-> hashPassword("password123"),
        email |-> "user@ajayfarenziya.com", role |-> "user", status |-> "active"] >>

\* the categories createUser adds for user id, numbered from firstId (a
\* category is modelled by its owner; name and colour decide nothing here)
NewUserCategories(id, firstId) ==
    [c \in firstId .. (firstId + Len(defaultCategories) - 1) |-> [userId |-> id]]

\* first default category of the k-th user created
FirstCategoryOf(k) == Len(defaultCategories) * (k - 1) + 1

getUserByUsername(username) == {id \in DOMAIN users : users[id].username = username}

getUserByEmail(email) == {id \in DOMAIN users : users[id].email = email}

getPendingUsers == {id \in DOMAIN users : users[id].status = "pending"}

getCategories(userId) == {id \in DOMAIN categories : categories[id].userId = userId}

\* getExpense and getExpenses join each expense with its category and throw
\* "Category not found" when the category is missing
HasCategory(id) == expenses[id].categoryId \in DOMAIN categories

getExpensesRows(userId) == {id \in DOMAIN expenses : expenses[id].userId = userId}

\* the categories getExpenses embeds in its rows ({ ...expense, category })
getExpensesCategories(userId) ==
    {expenses[id].categoryId : id \in getExpensesRows(userId)}

getExpensesThrows(userId) == \E id \in getExpensesRows(userId) : ~HasCategory(id)

categoryInUse(id) == \E e \in DOMAIN expenses : expenses[e].categoryId = id

Without(f, id) == [k \in DOMAIN f \ {id} |-> f[k]]

(***************************************************************************)
(* Initial state: the store after the MemStorage constructor, no session,  *)
(* no request.  server/email.ts is imported on first use; the import fails *)
(* when SENDGRID_API_KEY is not set, and then fails every time.            *)
(***************************************************************************)
NoRequest ==
    [stage |-> "idle", route |-> "none", principal |-> 0, id |-> 0, status |-> 0,
     handler |-> FALSE, owner |-> 0, rows |-> {}, trail |-> <<>>, account |-> 0,
     joined |-> {}]

NoCall == [fn |-> "none"]

Init ==
    /\ users = [id \in 1 .. Len(defaultUsers) |-> defaultUsers[id]]
    /\ categories = [c \in 1 .. (Len(defaultUsers) * Len(defaultCategories)) |->
            [userId |-> ((c - 1) \div Len(defaultCategories)) + 1]]
    /\ expenses = << >>
    /\ userCurrentId = Len(defaultUsers) + 1
    /\ categoryCurrentId = Len(defaultUsers) * Len(defaultCategories) + 1
    /\ expenseCurrentId = 1
    /\ sessions = {}
    /\ req = NoRequest
    /\ nreq = 0
    /\ call = NoCall
    /\ emailModule = "unloaded"
    /\ registering = EmptyBag

(***************************************************************************)
(* server/routes.ts: the routes of registerRoutes and their middleware.    *)
(***************************************************************************)
UserRoutes == {"GET /api/users/pending", "POST /api/users/:id/approve",
               "POST /api/users/:id/reject"}
CategoryRoutes == {"GET /api/categories", "POST /api/categories",
                   "PUT /api/categories/:id", "DELETE /api/categories/:id"}
ExpenseRoutes == {"GET /api/expenses", "GET /api/expenses/:id", "POST /api/expenses",
                  "PUT /api/expenses/:id", "DELETE /api/expenses/:id"}
DashboardRoutes == {"GET /api/dashboard/summary", "GET /api/dashboard/category-distribution",
                    "GET /api/dashboard/payment-distribution",
                    "GET /api/dashboard/monthly-trend", "GET /api/dashboard/recent-expenses"}
ReportRoutes == {"GET /api/reports/pdf", "GET /api/reports/excel"}

\* every route registered with requireAuth
GatedRoutes == UserRoutes \cup CategoryRoutes \cup ExpenseRoutes \cup DashboardRoutes
               \cup ReportRoutes

RouteFeatureTypo ==
    ("POST /api/categories" :> "create_category")
    @@ ("PUT /api/categories/:id" :> "edit_categories")
    @@ ("DELETE /api/categories/:id" :> "delete_categories")
    @@ ("POST /api/expenses" :> "create_expense")
    @@ ("PUT /api/expenses/:id" :> "edit_all_expenses")
    @@ ("DELETE /api/expenses/:id" :> "delete_expenses")
    @@ ("GET /api/reports/pdf" :> "export_reports")
    @@ ("GET /api/reports/excel" :> "export_reports")

\* the feature key each route passes to requirePermission
RouteFeature ==
    ("POST /api/categories" :> "create_category")
    @@ ("PUT /api/categories/:id" :> "edit_categories")
    @@ ("DELETE /api/categories/:id" :> "delete_categories")
    @@ ("POST /api/expenses" :> "create_expense")
    @@ ("PUT /api/expenses/:id" :> "edit_all_expenses")
    @@ ("DELETE /api/expenses/:id" :> "delete_all_expenses")
    @@ ("GET /api/reports/pdf" :> "export_reports")
    @@ ("GET /api/reports/excel" :> "export_reports")

\* the feature key each handler passes to hasPermission in its ownership check
InlineFeature ==
    ("PUT /api/categories/:id" :> "edit_categories")
    @@ ("DELETE /api/categories/:id" :> "delete_categories")
    @@ ("GET /api/expenses/:id" :> "edit_all_expenses")
    @@ ("PUT /api/expenses/:id" :> "edit_all_expenses")
    @@ ("DELETE /api/expenses/:id" :> "delete_all_expenses")

\* the keys the pages pass to the PermissionGuard component
GuardKeys == {"manage_users", "edit_all_expenses", "delete_all_expenses"}

\* the routes with upload.single("receipt") in their chain
UploadRoutes == {"POST /api/expenses", "PUT /api/expenses/:id"}

HandlerStageEarly(route) == "authenticated"

\* the stage a request is in when its route handler is called
HandlerStage(route) ==
    IF route \in UploadRoutes THEN "uploaded"
    ELSE IF route \in DOMAIN RouteFeature THEN "permitted"
    ELSE "authenticated"

(***************************************************************************)
(* Inputs of the requests.  parseInt of a parameter that is no number is   *)
(* NaN, written ParamNaN.                                                  *)
(***************************************************************************)
ParamNaN == -1
MissingCategory == categoryCurrentId + Len(defaultCategories)
UserIdInputs == {ParamNaN} \cup (Len(defaultUsers) .. (MaxUsers + 1))
CategoryIdInputs == {FirstCategoryOf(3), FirstCategoryOf(5), MissingCategory}
ExpenseIdInputs == 1 .. (MaxExpenses + 1)

ParamInputs(route) ==
    IF route \in {"POST /api/users/:id/approve", "POST /api/users/:id/reject"}
        THEN UserIdInputs
    ELSE IF route \in {"PUT /api/categories/:id", "DELETE /api/categories/:id"}
        THEN CategoryIdInputs
    ELSE IF route \in {"GET /api/expenses/:id", "PUT /api/expenses/:id",
                       "DELETE /api/expenses/:id"}
        THEN ExpenseIdInputs
    ELSE {0}

(***************************************************************************)
(* The request gate.                                                       *)
(***************************************************************************)
\* passport: the session names a user and deserializeUser finds it
isAuthenticated(principal) == principal \in DOMAIN users

\* requirePermission(feature) of server/permissions.ts: 0 is next()
requirePermissionNoCheck(principal, feature) ==
    IF ~isAuthenticated(principal) THEN 401 ELSE 0

requirePermission(principal, feature) ==
    IF ~isAuthenticated(principal) THEN 401
    ELSE IF ~hasPermission(users[principal].role, feature) THEN 403
    ELSE 0

\* requirePermission(feature) of server/email.ts
requirePermissionMatrix(principal, feature) ==
    IF ~isAuthenticated(principal) THEN 401
    ELSE IF hasPermissionMatrix(users[principal].role, feature) THEN 0
    ELSE 403

requireAuthOpen(principal) == 0

requireAuth(principal) == IF ~isAuthenticated(principal) THEN 401 ELSE 0

\* a request arrives at a gated route and requireAuth runs
RequireAuth(route, principal, id) ==
    /\ req.stage = "idle"
    /\ nreq < MaxRequests
    /\ principal \in sessions \cup {0}
    /\ route = "POST /api/expenses" => expenseCurrentId <= MaxExpenses
    /\ nreq' = nreq + 1
    /\ LET arrived == [NoRequest EXCEPT !.route = route, !.principal = principal,
                           !.id = id, !.trail = <<"requireAuth">>]
           out == requireAuth(principal)
       IN  req' = IF out = 0 THEN [arrived EXCEPT !.stage = "authenticated"]
                  ELSE [arrived EXCEPT !.stage = "done", !.status = out]
    /\ UNCHANGED <<store, sessions, call, registering, emailModule>>

RequirePermission ==
    /\ req.stage = "authenticated"
    /\ req.route \in DOMAIN RouteFeature
    /\ LET out == requirePermission(req.principal, RouteFeature[req.route])
           seen == [req EXCEPT !.trail = Append(@, "requirePermission")]
       IN  req' = IF out = 0 THEN [seen EXCEPT !.stage = "permitted"]
                  ELSE [seen EXCEPT !.stage = "done", !.status = out]
    /\ UNCHANGED <<store, sessions, nreq, call, registering, emailModule>>

\* upload.single("receipt"): a file over the size limit ends the request
\* with an error before the handler
UploadSingle(file) ==
    /\ req.stage = "permitted"
    /\ req.route \in UploadRoutes
    /\ LET seen == [req EXCEPT !.trail = Append(@, "upload")]
       IN  req' = IF file = "too_large"
                  THEN [seen EXCEPT !.stage = "done", !.status = 500]
                  ELSE [seen EXCEPT !.stage = "uploaded"]
    /\ UNCHANGED <<store, sessions, nreq, call, registering, emailModule>>

\* the route handler of req.route is called now
Handling(route) == req.route = route /\ req.stage = HandlerStage(route)

\* the handler ends with this response
Handled(status, owner, rows) ==
    [req EXCEPT !.stage = "done", !.status = status, !.handler = TRUE,
                !.owner = owner, !.rows = rows, !.trail = Append(@, "handler")]

\* an exception escapes an async handler: express 4 never answers (0),
\* express 5 answers 500
Escaped == {0, 500}

(***************************************************************************)
(* User management routes.                                                 *)
(***************************************************************************)
updateUserStatus(id, status) == [users EXCEPT ![id].status = status]

\* await import('./email'): the outcomes of the import
ImportEmail == IF emailModule = "unloaded" THEN {"loaded", "failed"} ELSE {emailModule}

UsersPending ==
    /\ Handling("GET /api/users/pending")
    /\ req' = IF users[req.principal].role # "admin" THEN Handled(403, 0, {})
              ELSE Handled(200, 0, getPendingUsers)
    /\ UNCHANGED <<store, sessions, nreq, call, registering, emailModule>>

\* POST /api/users/:id/approve and POST /api/users/:id/reject
SetUserStatus(route, status) ==
    /\ Handling(route)
    /\ LET userId == req.id
       IN  IF users[req.principal].role # "admin"
             THEN req' = Handled(403, 0, {}) /\ UNCHANGED <<users, emailModule>>
           ELSE IF userId = ParamNaN
             THEN req' = Handled(400, 0, {}) /\ UNCHANGED <<users, emailModule>>
           ELSE IF userId \notin DOMAIN users
             THEN req' = Handled(404, 0, {}) /\ UNCHANGED <<users, emailModule>>
           ELSE IF users[userId].status = status
             THEN req' = Handled(400, userId, {}) /\ UNCHANGED <<users, emailModule>>
           ELSE /\ users' = updateUserStatus(userId, status)
                \* a failed import of ./email is caught: 500
                /\ \E m \in ImportEmail :
                     /\ emailModule' = m
                     /\ req' = Handled(IF m = "loaded" THEN 200 ELSE 500, userId, {})
    /\ UNCHANGED <<categories, expenses, userCurrentId, categoryCurrentId,
                   expenseCurrentId, sessions, nreq, call, registering>>

ApproveUser == SetUserStatus("POST /api/users/:id/approve", "active")

RejectUserBeforeCheck ==
    /\ Handling("POST /api/users/:id/reject")
    /\ users' = IF req.id \in DOMAIN users THEN updateUserStatus(req.id, "rejected")
                ELSE users
    /\ req' = IF users[req.principal].role # "admin" THEN Handled(403, 0, {})
              ELSE IF req.id \notin DOMAIN users THEN Handled(404, 0, {})
              ELSE Handled(200, req.id, {})
    /\ UNCHANGED <<categories, expenses, userCurrentId, categoryCurrentId,
                   expenseCurrentId, sessions, nreq, call, registering, emailModule>>

RejectUser == SetUserStatus("POST /api/users/:id/reject", "rejected")

(***************************************************************************)
(* Category routes.                                                        *)
(***************************************************************************)
GetCategories ==
    /\ Handling("GET /api/categories")
    /\ req' = Handled(200, 0, getCategories(req.principal))
    /\ UNCHANGED <<store, sessions, nreq, call, registering, emailModule>>

\* valid: the body passes insertCategorySchema
CreateCategory(valid) ==
    /\ Handling("POST /api/categories")
    /\ IF valid
         THEN /\ categories' = categories @@
                    (categoryCurrentId :> [userId |-> req.principal])
              /\ categoryCurrentId' = categoryCurrentId + 1
              /\ req' = Handled(201, req.principal, {categoryCurrentId})
         ELSE /\ req' = Handled(400, 0, {})
              /\ UNCHANGED <<categories, categoryCurrentId>>
    /\ UNCHANGED <<users, expenses, userCurrentId, expenseCurrentId, sessions, nreq,
                   call, registering, emailModule>>

\* the ownership check of the single-resource handlers
ownerOnly(userId, userRole, ownerId, feature) == ownerId = userId

permissionOnly(userId, userRole, ownerId, feature) == hasPermission(userRole, feature)

ownerOrPermitted(userId, userRole, ownerId, feature) ==
    LET isOwner == ownerId = userId
        canAll == hasPermission(userRole, feature)
    IN  isOwner \/ canAll

UpdateCategory ==
    /\ Handling("PUT /api/categories/:id")
    /\ LET userId == req.principal
           categoryId == req.id
       IN  IF categoryId \notin DOMAIN categories
             THEN req' = Handled(404, 0, {}) /\ UNCHANGED categories
           ELSE IF ~ownerOrPermitted(userId, users[userId].role,
                                     categories[categoryId].userId, InlineFeature[req.route])
             THEN req' = Handled(403, categories[categoryId].userId, {})
                  /\ UNCHANGED categories
           ELSE \* updateCategory merges {...req.body, userId} into the row
                /\ categories' = [categories EXCEPT ![categoryId] = [userId |-> userId]]
                /\ req' = Handled(200, categories[categoryId].userId, {categoryId})
    /\ UNCHANGED <<users, expenses, userCurrentId, categoryCurrentId, expenseCurrentId,
                   sessions, nreq, call, registering, emailModule>>

DeleteCategory ==
    /\ Handling("DELETE /api/categories/:id")
    /\ LET userId == req.principal
           categoryId == req.id
       IN  IF categoryId \notin DOMAIN categories
             THEN req' = Handled(404, 0, {}) /\ UNCHANGED categories
           ELSE IF ~ownerOrPermitted(userId, users[userId].role,
                                     categories[categoryId].userId, InlineFeature[req.route])
             THEN req' = Handled(403, categories[categoryId].userId, {})
                  /\ UNCHANGED categories
           ELSE IF categoryInUse(categoryId)
             THEN req' = Handled(400, categories[categoryId].userId, {})
                  /\ UNCHANGED categories
           ELSE /\ categories' = Without(categories, categoryId)
                /\ req' = Handled(204, categories[categoryId].userId, {})
    /\ UNCHANGED <<users, expenses, userCurrentId, categoryCurrentId, expenseCurrentId,
                   sessions, nreq, call, registering, emailModule>>

(***************************************************************************)
(* Expense routes.                                                         *)
(***************************************************************************)
\* GET /api/expenses, the dashboard routes and the report exports all read
\* storage.getExpenses(req.user.id)
ReadOwnExpenses(route) ==
    /\ Handling(route)
    /\ IF getExpensesThrows(req.principal)
         THEN \E s \in Escaped : req' = Handled(s, 0, {})
         ELSE req' = [Handled(200, 0, getExpensesRows(req.principal))
                         EXCEPT !.joined = getExpensesCategories(req.principal)]
    /\ UNCHANGED <<store, sessions, nreq, call, registering, emailModule>>

GetExpenses == ReadOwnExpenses("GET /api/expenses")

Dashboard == \E route \in DashboardRoutes : ReadOwnExpenses(route)

Reports == \E route \in ReportRoutes : ReadOwnExpenses(route)

GetExpense ==
    /\ Handling("GET /api/expenses/:id")
    /\ LET userId == req.principal
           expenseId == req.id
       IN  IF expenseId \notin DOMAIN expenses
             THEN req' = Handled(404, 0, {})
           ELSE IF ~HasCategory(expenseId)
             THEN \E s \in Escaped : req' = Handled(s, expenses[expenseId].userId, {})
           ELSE IF ~ownerOrPermitted(userId, users[userId].role,
                                     expenses[expenseId].userId, InlineFeature[req.route])
             THEN req' = Handled(403, expenses[expenseId].userId, {})
           ELSE req' = Handled(200, expenses[expenseId].userId, {expenseId})
    /\ UNCHANGED <<store, sessions, nreq, call, registering, emailModule>>

expenseUserIdFromBody(bodyUserId, userId) ==
    IF bodyUserId # 0 THEN bodyUserId ELSE userId

\* the userId of { ...JSON.parse(req.body.expense), userId, receiptPath }:
\* the property written after the spread wins; bodyUserId is 0 when the
\* body has no userId
expenseUserId(bodyUserId, userId) == userId

\* categoryId, bodyUserId: the category id and the userId of the body; valid:
\* the body passes insertExpenseSchema (which does not look the category up)
CreateExpense(categoryId, bodyUserId, valid) ==
    /\ Handling("POST /api/expenses")
    /\ IF valid
         THEN /\ expenses' = expenses @@
                    (expenseCurrentId :>
                        [userId |-> expenseUserId(bodyUserId, req.principal),
                         categoryId |-> categoryId])
              /\ expenseCurrentId' = expenseCurrentId + 1
              /\ req' = Handled(201, req.principal, {expenseCurrentId})
         ELSE /\ req' = Handled(400, 0, {})
              /\ UNCHANGED <<expenses, expenseCurrentId>>
    /\ UNCHANGED <<users, categories, userCurrentId, categoryCurrentId, sessions, nreq,
                   call, registering, emailModule>>

\* categoryId, bodyUserId: the category id and the userId of the body, 0 when
\* the body has none; parses: req.body.expense is valid JSON
UpdateExpense(categoryId, bodyUserId, parses) ==
    /\ Handling("PUT /api/expenses/:id")
    /\ LET userId == req.principal
           expenseId == req.id
       IN  IF expenseId \notin DOMAIN expenses
             THEN req' = Handled(404, 0, {}) /\ UNCHANGED expenses
           ELSE IF ~HasCategory(expenseId)
             THEN /\ \E s \in Escaped : req' = Handled(s, expenses[expenseId].userId, {})
                  /\ UNCHANGED expenses
           ELSE IF ~ownerOrPermitted(userId, users[userId].role,
                                     expenses[expenseId].userId, InlineFeature[req.route])
             THEN req' = Handled(403, expenses[expenseId].userId, {})
                  /\ UNCHANGED expenses
           ELSE IF ~parses
             THEN req' = Handled(400, expenses[expenseId].userId, {})
                  /\ UNCHANGED expenses
           ELSE LET isOwner == expenses[expenseId].userId = userId
                IN  /\ expenses' = [expenses EXCEPT ![expenseId] =
                            [userId |-> expenseUserId(bodyUserId,
                                            IF isOwner THEN userId ELSE @.userId),
                             categoryId |-> IF categoryId = 0 THEN @.categoryId
                                            ELSE categoryId]]
                    /\ req' = Handled(200, expenses[expenseId].userId, {expenseId})
    /\ UNCHANGED <<users, categories, userCurrentId, categoryCurrentId, expenseCurrentId,
                   sessions, nreq, call, registering, emailModule>>

DeleteExpense ==
    /\ Handling("DELETE /api/expenses/:id")
    /\ LET userId == req.principal
           expenseId == req.id
       IN  IF expenseId \notin DOMAIN expenses
             THEN req' = Handled(404, 0, {}) /\ UNCHANGED expenses
           ELSE IF ~HasCategory(expenseId)
             THEN /\ \E s \in Escaped : req' = Handled(s, expenses[expenseId].userId, {})
                  /\ UNCHANGED expenses
           ELSE IF ~ownerOrPermitted(userId, users[userId].role,
                                     expenses[expenseId].userId, InlineFeature[req.route])
             THEN req' = Handled(403, expenses[expenseId].userId, {})
                  /\ UNCHANGED expenses
           ELSE /\ expenses' = Without(expenses, expenseId)
                /\ req' = Handled(204, expenses[expenseId].userId, {})
    /\ UNCHANGED <<users, categories, userCurrentId, categoryCurrentId, expenseCurrentId,
                   sessions, nreq, call, registering, emailModule>>

(***************************************************************************)
(* server/auth.ts (in storage.ts): register, login, logout, current user.  *)
(***************************************************************************)
AuthArrived(route, principal) ==
    [NoRequest EXCEPT !.route = route, !.principal = principal]

createUser(insertUser) ==
    /\ users' = users @@ (userCurrentId :>
            [username |-> insertUser.username, password |-> insertUser.password,
             email |-> insertUser.email, role |-> insertUser.role,
             status |-> IF insertUser.status = Undefined THEN "pending"
                        ELSE insertUser.status])
    /\ userCurrentId' = userCurrentId + 1
    /\ categories' = categories @@ NewUserCategories(userCurrentId, categoryCurrentId)
    /\ categoryCurrentId' = categoryCurrentId + Len(defaultCategories)

insertUserOfBody(body) == body

\* { ...req.body, password: await hashPassword(...), status: "pending" }
\* before the password is hashed
insertUserOf(body) == [body EXCEPT !.status = "pending"]

\* body: the JSON body, with "" for a missing string and Undefined for a
\* missing role or status.  The handler runs to its await of hashPassword:
\* the field and uniqueness checks are behind it, createUser is ahead.
Register(principal, body) ==
    /\ req.stage = "idle"
    /\ nreq < MaxRequests
    /\ userCurrentId + BagCardinality(registering) <= MaxUsers
    /\ BagCardinality(registering) < MaxRegistering
    /\ principal \in sessions \cup {0}
    /\ nreq' = nreq + 1
    /\ IF body.email = "" \/ body.username = "" \/ body.password = ""
            \/ getUserByUsername(body.username) # {}
            \/ getUserByEmail(body.email) # {}
         THEN /\ req' = [AuthArrived("POST /api/register", principal)
                            EXCEPT !.stage = "done", !.status = 400,
                                   !.handler = TRUE, !.trail = <<"handler">>]
              /\ UNCHANGED registering
         ELSE /\ registering' = registering (+) SetToBag({insertUserOf(body)})
              /\ UNCHANGED req
    /\ UNCHANGED <<store, sessions, call, emailModule>>

\* hashPassword has resolved for one of the waiting calls: createUser, the
\* confirmation email and the response
RegisterCreateUser(insertUser) ==
    /\ req.stage = "idle"
    /\ BagIn(insertUser, registering)
    /\ registering' = registering (-) SetToBag({insertUser})
    /\ createUser([insertUser EXCEPT !.password = hashPassword(insertUser.password)])
    /\ \E m \in ImportEmail :
         /\ emailModule' = m
         /\ req' = [AuthArrived("POST /api/register", 0)
                       EXCEPT !.stage = "done", !.handler = TRUE,
                              !.trail = <<"handler">>, !.owner = userCurrentId,
                              !.status = IF m = "loaded" THEN 201 ELSE 500]
    /\ UNCHANGED <<expenses, expenseCurrentId, sessions, nreq, call>>

\* the LocalStrategy verify callback: the user id it passes to done, 0 for false
verifyAnyStatus(username, password) ==
    LET found == getUserByUsername(username)
    IN  IF found = {} THEN 0
        ELSE LET id == CHOOSE u \in found : \A v \in found : u <= v
             IN  IF ~comparePasswords(password, users[id].password) THEN 0 ELSE id

verify(username, password) ==
    LET found == getUserByUsername(username)
    IN  IF found = {} THEN 0
        ELSE LET id == CHOOSE u \in found : \A v \in found : u <= v
             IN  IF ~comparePasswords(password, users[id].password) THEN 0
                 ELSE IF users[id].status # "active" THEN 0
                 ELSE id

\* the account a login attempt names with its correct password, 0 if none
AccountOf(username, password) ==
    LET found == {id \in getUserByUsername(username) :
                     comparePasswords(password, users[id].password)}
    IN  IF found = {} THEN 0 ELSE CHOOSE u \in found : \A v \in found : u <= v

\* POST /api/login arrives and passport.authenticate("local") runs
PassportAuthenticate(principal, username, password) ==
    /\ req.stage = "idle"
    /\ nreq < MaxRequests
    /\ principal \in sessions \cup {0}
    /\ nreq' = nreq + 1
    /\ LET id == verify(username, password)
           arrived == [AuthArrived("POST /api/login", principal)
                          EXCEPT !.trail = <<"authenticate">>,
                                 !.account = AccountOf(username, password)]
       IN  IF id = 0
             THEN /\ req' = [arrived EXCEPT !.stage = "done", !.status = 401]
                  /\ UNCHANGED sessions
             ELSE \* req.login stores the user in the session
                  /\ Cardinality((sessions \ {principal}) \cup {id}) <= MaxSessions
                  /\ sessions' = (sessions \ {principal}) \cup {id}
                  /\ req' = [arrived EXCEPT !.stage = "authenticated", !.principal = id]
    /\ UNCHANGED <<store, call, registering, emailModule>>

Login ==
    /\ Handling("POST /api/login")
    /\ req' = Handled(200, req.principal, {})
    /\ UNCHANGED <<store, sessions, nreq, call, registering, emailModule>>

Logout(principal) ==
    /\ req.stage = "idle"
    /\ nreq < MaxRequests
    /\ principal \in sessions \cup {0}
    /\ nreq' = nreq + 1
    /\ sessions' = sessions \ {principal}
    /\ req' = [AuthArrived("POST /api/logout", principal)
                  EXCEPT !.stage = "done", !.status = 200, !.handler = TRUE,
                         !.trail = <<"handler">>]
    /\ UNCHANGED <<store, call, registering, emailModule>>

GetUser(principal) ==
    /\ req.stage = "idle"
    /\ nreq < MaxRequests
    /\ principal \in sessions \cup {0}
    /\ nreq' = nreq + 1
    /\ req' = [AuthArrived("GET /api/user", principal)
                  EXCEPT !.stage = "done", !.handler = TRUE, !.trail = <<"handler">>,
                         !.status = IF isAuthenticated(principal) THEN 200 ELSE 401]
    /\ UNCHANGED <<store, sessions, call, registering, emailModule>>

(***************************************************************************)
(* The isResourceOwner middleware, in both permission modules.  The path   *)
(* is the sequence of its segments; out is the response status, 0 for      *)
(* next(); consulted is the role-based check the decision went through.    *)
(***************************************************************************)
Includes(path, segment) == \E i \in DOMAIN path : path[i] = segment

PermissionRequired(path) ==
    IF Includes(path, "expenses") THEN "view_all_expenses"
    ELSE IF Includes(path, "categories") THEN "edit_categories"
    ELSE "edit_users"

isResourceOwnerRoleFirst(principal, resourceUserId, path) ==
    IF ~isAuthenticated(principal) THEN [out |-> 500, consulted |-> "none"]
    ELSE LET permissionRequired == PermissionRequired(path)
         IN  IF ~hasPermission(users[principal].role, permissionRequired)
               THEN [out |-> 403, consulted |-> permissionRequired]
             ELSE [out |-> 0, consulted |-> permissionRequired]

\* server/permissions.ts; req.user!.id throws without a user
isResourceOwner(principal, resourceUserId, path) ==
    IF ~isAuthenticated(principal) THEN [out |-> 500, consulted |-> "none"]
    ELSE IF resourceUserId # principal
      THEN LET permissionRequired == PermissionRequired(path)
           IN  IF ~hasPermission(users[principal].role, permissionRequired)
                 THEN [out |-> 403, consulted |-> permissionRequired]
               ELSE [out |-> 0, consulted |-> permissionRequired]
    ELSE [out |-> 0, consulted |-> "none"]

\* server/email.ts
isResourceOwnerMatrix(principal, resourceUserId, path) ==
    IF ~isAuthenticated(principal) THEN [out |-> 401, consulted |-> "none"]
    ELSE IF principal = resourceUserId THEN [out |-> 0, consulted |-> "none"]
    ELSE IF users[principal].role = "admin" THEN [out |-> 0, consulted |-> "role"]
    ELSE IF users[principal].role = "accountant"
            /\ (Includes(path, "expenses") \/ Includes(path, "reports"))
      THEN [out |-> 0, consulted |-> "role"]
    ELSE [out |-> 403, consulted |-> "role"]

(***************************************************************************)
(* Direct calls of the decision functions and of the middleware that no    *)
(* route mounts, on inputs of the caller's choice.                         *)
(***************************************************************************)
PathInputs == {<<"api", "expenses", ":userId">>, <<"api", "categories", ":userId">>,
               <<"api", "reports", ":userId">>, <<"api", "users", ":userId">>}
PrincipalInputs == {0} \cup DOMAIN users
OwnerInputs == {ParamNaN} \cup DOMAIN users

CallHasPermission(role, feature) ==
    /\ call' = [fn |-> "hasPermission", role |-> role, feature |-> feature,
                server |-> hasPermission(role, feature),
                matrix |-> hasPermissionMatrix(role, feature),
                client |-> hasPermissionClient(role, feature),
                guard |-> hasPermissionGuard(role, feature)]
    /\ UNCHANGED <<store, sessions, req, nreq, emailModule, registering>>

CallRequirePermission(principal, feature) ==
    /\ call' = [fn |-> "requirePermission", principal |-> principal,
                feature |-> feature,
                server |-> requirePermission(principal, feature),
                matrix |-> requirePermissionMatrix(principal, feature)]
    /\ UNCHANGED <<store, sessions, req, nreq, emailModule, registering>>

CallIsResourceOwner(principal, resourceUserId, path) ==
    /\ call' = [fn |-> "isResourceOwner", principal |-> principal,
                resourceUserId |-> resourceUserId, path |-> path,
                server |-> isResourceOwner(principal, resourceUserId, path),
                matrix |-> isResourceOwnerMatrix(principal, resourceUserId, path)]
    /\ UNCHANGED <<store, sessions, req, nreq, emailModule, registering>>

\* the response has been sent: the server is ready for the next request
Finish ==
    /\ req.stage = "done"
    /\ req' = NoRequest
    /\ UNCHANGED <<store, sessions, nreq, call, registering, emailModule>>

(***************************************************************************)
(* Specifications.                                                         *)
(***************************************************************************)
FileInputs == {"ok", "too_large"}
UsernameInputs == {"", "user", "alice"}
EmailInputs == {"", "user@ajayfarenziya.com", "alice@example.com"}
PasswordInputs == {"", "pw"}
RegisterRoles == {"admin", Undefined}
LoginUsernames == {"admin", "accountant", "manager", "user", "alice"}
LoginPasswords == {"password123", "pw"}
BodyUserIdInputs == {0, 1}
RegisterBodies ==
    [username : UsernameInputs, email : EmailInputs, password : PasswordInputs,
     role : RegisterRoles, status : {Undefined, "active"}]

Next ==
    \/ \E route \in GatedRoutes, principal \in PrincipalInputs :
         \E id \in ParamInputs(route) : RequireAuth(route, principal, id)
    \/ RequirePermission
    \/ \E file \in FileInputs : UploadSingle(file)
    \/ UsersPending
    \/ ApproveUser
    \/ RejectUser
    \/ GetCategories
    \/ \E valid \in BOOLEAN : CreateCategory(valid)
    \/ UpdateCategory
    \/ DeleteCategory
    \/ GetExpenses
    \/ Dashboard
    \/ Reports
    \/ GetExpense
    \/ \E categoryId \in CategoryIdInputs, bodyUserId \in BodyUserIdInputs,
          valid \in BOOLEAN :
         CreateExpense(categoryId, bodyUserId, valid)
    \/ \E categoryId \in CategoryIdInputs \cup {0}, bodyUserId \in BodyUserIdInputs,
          parses \in BOOLEAN :
         UpdateExpense(categoryId, bodyUserId, parses)
    \/ DeleteExpense
    \/ \E principal \in PrincipalInputs, body \in RegisterBodies :
         Register(principal, body)
    \/ \E insertUser \in BagToSet(registering) : RegisterCreateUser(insertUser)
    \/ \E principal \in PrincipalInputs, username \in LoginUsernames,
          password \in LoginPasswords :
         PassportAuthenticate(principal, username, password)
    \/ Login
    \/ \E principal \in PrincipalInputs : Logout(principal)
    \/ \E principal \in PrincipalInputs : GetUser(principal)
    \/ Finish

Spec == Init /\ [][Next]_vars

PermNext ==
    \/ \E role \in RoleInputs, feature \in FeatureKeys : CallHasPermission(role, feature)
    \/ \E principal \in PrincipalInputs, feature \in FeatureKeys :
         CallRequirePermission(principal, feature)
    \/ \E principal \in PrincipalInputs, resourceUserId \in OwnerInputs,
          path \in PathInputs :
         CallIsResourceOwner(principal, resourceUserId, path)

PermSpec == Init /\ [][PermNext]_vars

(***************************************************************************)
(* Properties of the permission layer and of the request gate.             *)
(***************************************************************************)
Authenticated == isAuthenticated(req.principal)
Role == users[req.principal].role
Done == req.stage = "done"
ExpenseItemRoutes == {"GET /api/expenses/:id", "PUT /api/expenses/:id",
                      "DELETE /api/expenses/:id"}
CategoryItemRoutes == {"PUT /api/categories/:id", "DELETE /api/categories/:id"}
ExpensesPath == <<"api", "expenses", ":userId">>

\* C1: every hasPermission implementation answers false for a feature key
\* that its permission table does not hold, whatever the role.
C1_FailClosed ==
    call.fn = "hasPermission" =>
        /\ (call.feature \notin DOMAIN featureAccess => ~call.server)
        /\ (call.feature \notin DOMAIN featureAccessMatrix => ~call.matrix)
        /\ (call.feature \notin DOMAIN featureAccessClient => ~call.client)
        /\ (call.feature \notin DOMAIN featureAccessGuard => ~call.guard)

C1_Witness ==
    /\ call.fn = "hasPermission"
    /\ call.role = "admin"
    /\ call.feature = "constructor"
    /\ ~call.server /\ ~call.matrix /\ ~call.client /\ ~call.guard

\* C2: a request without an authenticated principal to a gated route is
\* answered 401 and its handler is never invoked.
C2_Unauthenticated401 ==
    (req.route \in GatedRoutes /\ ~Authenticated) =>
        (Done /\ req.status = 401 /\ ~req.handler)

C2_Witness ==
    /\ req.route = "DELETE /api/expenses/:id"
    /\ ~Authenticated
    /\ req.status = 401
    /\ sessions # {}

\* C3: once requirePermission has run for an authenticated principal on a
\* feature-gated route, the request has proceeded exactly when hasPermission
\* grants the route's feature to the principal's role, and is otherwise
\* answered 403 with the handler not invoked; the requirePermission of the
\* matrix module lets the same request through exactly when the matrix grants.
C3_GateFollowsHasPermission ==
    (req.route \in DOMAIN RouteFeature /\ Authenticated
        /\ Len(req.trail) >= 2) =>
        LET feature == RouteFeature[req.route]
        IN  /\ IF hasPermission(Role, feature)
                 THEN req.stage = "permitted" \/ Len(req.trail) >= 3
                 ELSE Done /\ req.status = 403 /\ ~req.handler
                      /\ Len(req.trail) = 2
            /\ (requirePermissionMatrix(req.principal, feature) = 0)
                    = hasPermissionMatrix(Role, feature)
            /\ requirePermissionMatrix(req.principal, feature) \in {0, 403}

C3_Witness ==
    /\ req.route = "POST /api/categories"
    /\ Authenticated
    /\ Role = "user"
    /\ Done /\ req.status = 403 /\ ~req.handler

\* C4 (as claimed): an authenticated principal of any role who asks to
\* update or delete an existing expense of their own is never answered 403.
C4_OwnerAllowed ==
    (Done /\ req.route \in {"PUT /api/expenses/:id", "DELETE /api/expenses/:id"}
        /\ Authenticated
        /\ req.id \in DOMAIN expenses
        /\ expenses[req.id].userId = req.principal) =>
        req.status # 403

\* C5 (as claimed): on the ownership-gated routes a request of an
\* authenticated principal that names a missing resource is answered 404,
\* never 403.
Missing ==
    /\ req.status # 204
    /\ \/ req.route \in ExpenseItemRoutes /\ req.id \notin DOMAIN expenses
       \/ req.route \in CategoryItemRoutes /\ req.id \notin DOMAIN categories

C5_MissingIs404 ==
    (Done /\ Authenticated /\ Missing) =>
        (req.status # 403 /\ (req.handler => req.status = 404))

\* C6: a principal with role user who asks to delete an existing expense of
\* another user is answered 403 and the expense stays in the store.
OthersExpense ==
    \/ req.id \in DOMAIN expenses /\ expenses[req.id].userId # req.principal
    \/ req.owner \notin {0, req.principal}

C6_UserCannotDeleteOthers ==
    (Done /\ req.route = "DELETE /api/expenses/:id" /\ Authenticated
        /\ Role = "user" /\ OthersExpense) =>
        (req.status = 403 /\ req.id \in DOMAIN expenses)

C6_Witness ==
    /\ Done /\ req.route = "DELETE /api/expenses/:id" /\ Authenticated
    /\ Role = "user"
    /\ req.id \in DOMAIN expenses
    /\ expenses[req.id].userId # req.principal
    /\ req.status = 403

\* C7: in both isResourceOwner implementations an actor whose id equals the
\* resource owner id is let through, whatever the role and the resource
\* kind, without any role-based check having been consulted.
C7_OwnerShortCircuit ==
    (call.fn = "isResourceOwner" /\ isAuthenticated(call.principal)
        /\ call.resourceUserId = call.principal) =>
        /\ call.server = [out |-> 0, consulted |-> "none"]
        /\ call.matrix = [out |-> 0, consulted |-> "none"]

C7_Witness ==
    /\ call.fn = "isResourceOwner"
    /\ isAuthenticated(call.principal)
    /\ users[call.principal].role = "user"
    /\ call.resourceUserId = call.principal
    /\ call.path = <<"api", "users", ":userId">>
    /\ call.server.out = 0 /\ call.matrix.out = 0

\* C8: for an expense owned by another user, GET /api/expenses/:id answers
\* 403 to a principal with role user and 200 to one with role accountant,
\* and both isResourceOwner middlewares refuse the user (403) and let the
\* accountant through on an expenses path.
C8_NonOwnerUserDeniedAccountantAllowed ==
    /\ (Done /\ req.route = "GET /api/expenses/:id" /\ req.handler
            /\ req.owner \notin {0, req.principal} /\ req.status \notin Escaped) =>
          /\ (Role = "user" => req.status = 403)
          /\ (Role = "accountant" => req.status = 200 /\ req.rows = {req.id})
    /\ \A actor \in DOMAIN users, owner \in DOMAIN users :
          actor # owner =>
            /\ (users[actor].role = "user" =>
                  /\ isResourceOwner(actor, owner, ExpensesPath).out = 403
                  /\ isResourceOwnerMatrix(actor, owner, ExpensesPath).out = 403)
            /\ (users[actor].role = "accountant" =>
                  /\ isResourceOwner(actor, owner, ExpensesPath).out = 0
                  /\ isResourceOwnerMatrix(actor, owner, ExpensesPath).out = 0)

C8_Witness ==
    /\ Done /\ req.route = "GET /api/expenses/:id" /\ req.handler
    /\ req.owner \notin {0, req.principal}
    /\ Role = "accountant"
    /\ req.status = 200

\* C9 (as claimed): for the four roles and the eight catalogue keys the
\* hierarchy-threshold hasPermission of the server routes and the per-role
\* matrix hasPermission return the same boolean.
ClaimedCatalogue == {"create_expense", "edit_all_expenses", "delete_all_expenses",
                     "create_category", "edit_categories", "delete_categories",
                     "export_reports", "manage_users"}

C9_ModelsAgree ==
    (call.fn = "hasPermission" /\ call.role \in userRoles
        /\ call.feature \in ClaimedCatalogue) =>
        (call.server = call.matrix /\ call.server = call.client)

\* C10: a login attempt that names an account with its correct password
\* succeeds exactly when the account is active; for a pending or rejected
\* account it is answered 401 and the login handler is not invoked.
C10_OnlyActiveLogin ==
    (req.route = "POST /api/login" /\ req.account # 0) =>
        IF users[req.account].status = "active"
          THEN /\ req.principal = req.account
               /\ req.account \in sessions
               /\ req.status # 401
               /\ Done => (req.status = 200 /\ req.handler)
          ELSE Done /\ req.status = 401 /\ ~req.handler

C10_Witness ==
    /\ req.route = "POST /api/login"
    /\ req.account # 0
    /\ users[req.account].status = "pending"
    /\ Done /\ req.status = 401

\* C11: a request that ends in 401, 403 or 404 leaves the users, categories
\* and expenses stores as they were: no middleware step writes to a store,
\* and the step that answers 401, 403 or 404 writes to none either.
Refusals == {401, 403, 404}
InChain == {"authenticated", "permitted", "uploaded"}

C11_RefusalsLeaveStores ==
    [][ (\/ req'.stage \in InChain
         \/ req'.stage = "done" /\ req'.status \in Refusals)
        => UNCHANGED store ]_vars

C11_Witness ==
    /\ Done /\ req.route = "POST /api/users/:id/reject"
    /\ req.handler /\ req.status = 403
    /\ req.id \in DOMAIN users
    /\ users[req.id].status = "active"

\* C12: a request to a gated route moves only forward: it is in the chain
\* only while authenticated, requirePermission runs second and only there,
\* upload third and only after the permission check allowed, the handler last
\* and only after every middleware of the route ran; the ownership check and
\* every write to a store belong to the handler; a finished request got either
\* an early error or its handler, and gets no second response.
StageRank ==
    [idle |-> 0, authenticated |-> 1, permitted |-> 2, uploaded |-> 3, done |-> 4]
Chain(route) ==
    <<"requireAuth">>
    \o (IF route \in DOMAIN RouteFeature THEN <<"requirePermission">> ELSE <<>>)
    \o (IF route \in UploadRoutes THEN <<"upload">> ELSE <<>>)
    \o <<"handler">>
IsPrefix(s, t) == Len(s) <= Len(t) /\ SubSeq(t, 1, Len(s)) = s

C12_Forward ==
    /\ [](req.route \in GatedRoutes =>
            /\ IsPrefix(req.trail, Chain(req.route))
            /\ (req.stage \in InChain => Authenticated)
            /\ (Len(req.trail) >= 2 => Authenticated)
            /\ (Len(req.trail) >= 3 /\ req.route \in DOMAIN RouteFeature
                    => hasPermission(Role, RouteFeature[req.route]))
            /\ (req.handler <=> req.trail = Chain(req.route))
            /\ (req.handler => Done)
            /\ (req.owner # 0 => req.handler)
            /\ (Done /\ ~req.handler => req.status \in {401, 403, 500}))
    /\ [][ /\ (req.stage = "done" => req' = NoRequest)
           /\ (req.stage # "done" /\ req' # req =>
                 /\ StageRank[req'.stage] > StageRank[req.stage]
                 /\ (req.stage # "idle" =>
                        /\ req'.route = req.route
                        /\ req'.principal = req.principal
                        /\ IsPrefix(req.trail, req'.trail)))
           /\ (store' # store => req'.handler /\ req'.stage = "done") ]_vars

C12_Witness ==
    /\ Done /\ req.route = "PUT /api/expenses/:id"
    /\ req.trail = <<"requireAuth", "requirePermission", "upload", "handler">>
    /\ req.status = 200
    /\ req.owner # req.principal

\* C13: for every role and every key of the server table, the server's
\* hasPermission is true exactly when the role's rank (admin 100, manager 80,
\* accountant 60, user 10) is at least the key's minimum rank, so that a
\* grant to a role is a grant to every role of higher rank.
Rank == [admin |-> 100, manager |-> 80, accountant |-> 60, user |-> 10]

C13_HierarchyThreshold ==
    (call.fn = "hasPermission" /\ call.role \in userRoles
        /\ call.feature \in DOMAIN featureAccess) =>
        /\ call.server = (Rank[call.role] >= featureAccess[call.feature])
        /\ \A higher \in userRoles :
              (call.server /\ Rank[higher] >= Rank[call.role])
                  => hasPermission(higher, call.feature)

C13_Witness ==
    /\ call.fn = "hasPermission"
    /\ call.role = "manager"
    /\ call.feature = "delete_all_expenses"
    /\ call.server

\* C14 (as claimed): in every implementation hasPermission(role,
\* "manage_users") is true for admin and false for the three other roles.
C14_ManageUsersAdminOnly ==
    (call.fn = "hasPermission" /\ call.role \in userRoles
        /\ call.feature = "manage_users") =>
        /\ call.server = (call.role = "admin")
        /\ call.matrix = (call.role = "admin")
        /\ call.client = (call.role = "admin")
        /\ call.guard = (call.role = "admin")

\* C15: in every implementation hasPermission(role, "create_expense") is
\* true for each of the four roles.
C15_CreateExpenseForAll ==
    (call.fn = "hasPermission" /\ call.role \in userRoles
        /\ call.feature = "create_expense") =>
        (call.server /\ call.matrix /\ call.client /\ call.guard)

C15_Witness ==
    /\ call.fn = "hasPermission"
    /\ call.role = "user"
    /\ call.feature = "create_expense"
    /\ call.server /\ call.matrix /\ call.client /\ call.guard

\* C16 (as claimed): view_dashboard, view_reports and view_categories are
\* keys of every permission table and every table grants them to each of
\* the four roles.
ReadKeys == {"view_dashboard", "view_reports", "view_categories"}

C16_ReadKeysForAll ==
    (call.fn = "hasPermission" /\ call.role \in userRoles
        /\ call.feature \in ReadKeys) =>
        /\ call.feature \in DOMAIN featureAccess /\ call.server
        /\ call.feature \in DOMAIN featureAccessMatrix /\ call.matrix
        /\ call.feature \in DOMAIN featureAccessClient /\ call.client
        /\ call.feature \in DOMAIN featureAccessGuard /\ call.guard

\* C17 (as claimed): for an actor who is not the owner and a path that is
\* neither an expenses nor a categories path, both ownership guards let
\* the request through only for the admin role.
C17_UnknownKindAdminOnly ==
    (call.fn = "isResourceOwner" /\ isAuthenticated(call.principal)
        /\ call.resourceUserId # call.principal
        /\ ~Includes(call.path, "expenses") /\ ~Includes(call.path, "categories")) =>
        /\ (call.server.out = 0 => users[call.principal].role = "admin")
        /\ (call.matrix.out = 0 => users[call.principal].role = "admin")

\* C18: every feature key a route passes to requirePermission, a handler
\* passes to hasPermission or isResourceOwner chooses is a key of the table
\* of server/permissions.ts, and every key a page passes to PermissionGuard
\* is a key of the guard's table; so every 403 of a request comes from a
\* key that is in the table.
C18_NoAbsentKey ==
    /\ \A route \in DOMAIN RouteFeature : RouteFeature[route] \in DOMAIN featureAccess
    /\ \A route \in DOMAIN InlineFeature : InlineFeature[route] \in DOMAIN featureAccess
    /\ \A path \in PathInputs : PermissionRequired(path) \in DOMAIN featureAccess
    /\ GuardKeys \subseteq DOMAIN featureAccessGuard
    /\ (Done /\ req.status = 403 /\ req.route \in DOMAIN RouteFeature /\ ~req.handler)
          => Lookup(featureAccess, RouteFeature[req.route]).t = "number"
    /\ (Done /\ req.status = 403 /\ req.route \in DOMAIN InlineFeature /\ req.handler)
          => Lookup(featureAccess, InlineFeature[req.route]).t = "number"

C18_Witness ==
    /\ Done /\ req.route = "DELETE /api/expenses/:id"
    /\ req.status = 403 /\ ~req.handler
    /\ Role = "accountant"
    /\ RouteFeature[req.route] \in DOMAIN featureAccess

\* C19: no step of the system changes the answer of hasPermission for any
\* role and feature key, in any of the implementations, nor the permission
\* table or the role ranks.
Decisions ==
    [role \in RoleInputs, feature \in FeatureKeys |->
        <<hasPermission(role, feature), hasPermissionMatrix(role, feature),
          hasPermissionClient(role, feature), hasPermissionGuard(role, feature)>>]

C20_AcceptedPrincipalActive ==
    (req.route \in GatedRoutes /\ req.stage = "authenticated") =>
        users[req.principal].status = "active"

(***************************************************************************)
(* Properties of the stored data and of the account life cycle.            *)
(***************************************************************************)
SelfRegistered == {id \in DOMAIN users : id > Len(defaultUsers)}
StatusRoutes == {"POST /api/users/:id/approve", "POST /api/users/:id/reject"}
StatusOf(route) == IF route = "POST /api/users/:id/approve" THEN "active" ELSE "rejected"
ListRoutes == {"GET /api/expenses"} \cup DashboardRoutes \cup ReportRoutes

\* C21 (as claimed): no step changes the userId of a stored category; a
\* successful PUT /api/categories/:id leaves the owner as it was.
C21_CategoryOwnerStable ==
    [][ \A id \in DOMAIN categories \cap DOMAIN categories' :
            categories'[id].userId = categories[id].userId ]_vars

\* C22: an expense enters the store only through POST /api/expenses, with
\* the caller's id as its userId whatever userId the body carries, and no
\* later step, a PUT by the owner or by a privileged non-owner included,
\* changes the userId of a stored expense.
C22_ExpenseOwnerStable ==
    [][ \A id \in DOMAIN expenses' :
            IF id \in DOMAIN expenses
              THEN expenses'[id].userId = expenses[id].userId
              ELSE /\ req'.route = "POST /api/expenses"
                   /\ expenses'[id].userId = req'.principal ]_vars

C22_Witness ==
    /\ Done /\ req.route = "PUT /api/expenses/:id"
    /\ req.handler /\ req.status = 200
    /\ req.id \in DOMAIN expenses
    /\ expenses[req.id].userId # req.principal
    /\ req.owner = expenses[req.id].userId

\* C23: the status of an account changes only in the handler of the approve
\* or reject route called by an authenticated admin, and only for the account
\* the route names; the call by any other role is answered 403 and the call
\* for an account that already has the status is answered 400, both with
\* every status unchanged.
C23_OnlyAdminChangesStatus ==
    [][ /\ \A id \in DOMAIN users :
              users'[id].status # users[id].status =>
                /\ req.stage = "authenticated"
                /\ req'.route \in StatusRoutes /\ req'.handler
                /\ req'.id = id
                /\ isAuthenticated(req.principal)
                /\ users[req.principal].role = "admin"
                /\ users'[id].status = StatusOf(req'.route)
        /\ (req.route \in StatusRoutes /\ req.stage = "authenticated"
                /\ req'.stage = "done") =>
              /\ (users[req.principal].role # "admin" =>
                    req'.status = 403 /\ users' = users)
              /\ (users[req.principal].role = "admin" /\ req.id \in DOMAIN users
                    /\ users[req.id].status = StatusOf(req.route) =>
                    req'.status = 400 /\ users' = users) ]_vars

C23_Witness ==
    /\ Done /\ req.route = "POST /api/users/:id/approve"
    /\ Authenticated /\ Role = "admin"
    /\ req.id \in DOMAIN users
    /\ users[req.id].status = "active"
    /\ req.status = 400

\* C24: an account enters the store only through POST /api/register and
\* with status pending whatever status the body carries; no step of a
\* registration touches the sessions; a self-registered account becomes
\* active only through an approve of that account by an admin; and a
\* session is given only to an account that is active at that moment.
C24_PendingUntilApproved ==
    [][ /\ \A id \in DOMAIN users' \ DOMAIN users :
              /\ req'.route = "POST /api/register"
              /\ users'[id].status = "pending"
        /\ (registering' # registering \/ req'.route = "POST /api/register")
              => sessions' = sessions
        /\ \A id \in SelfRegistered :
              (users[id].status # "active" /\ users'[id].status = "active") =>
                /\ req'.route = "POST /api/users/:id/approve"
                /\ req'.id = id
                /\ users[req.principal].role = "admin"
        /\ \A id \in sessions' \ sessions : users[id].status = "active" ]_vars

C24_Witness ==
    /\ Done /\ req.route = "POST /api/login" /\ req.status = 200
    /\ req.principal \in SelfRegistered
    /\ req.principal \in sessions

\* C25 (as claimed): every account created through POST /api/register has
\* role user.
C25_RegisteredRoleUser ==
    \A id \in SelfRegistered : users[id].role = "user"

\* C26 (as claimed): every (role, feature) pair the PermissionGuard matrix
\* grants is granted by the hasPermission the server routes import.
C26_GuardWithinServer ==
    (call.fn = "hasPermission" /\ call.role \in userRoles /\ call.guard)
        => call.server

\* C27 (as claimed): no two stored users share a username or an email.
C27_UniqueUsers ==
    \A a, b \in DOMAIN users :
        a # b => /\ users[a].username # users[b].username
                 /\ users[a].email # users[b].email

\* C28 (as claimed): every stored expense names a category of the store,
\* and no read of the expenses fails.
C28_ExpenseCategoryExists ==
    /\ \A id \in DOMAIN expenses : HasCategory(id)
    /\ (Done /\ req.route \in ListRoutes \cup ExpenseItemRoutes /\ req.handler)
          => req.status \notin Escaped

\* C29 (as claimed): a POST /api/register answered with anything but 201
\* adds no user and no category.
C29_RegisterAllOrNothing ==
    [][ (req'.route = "POST /api/register" /\ req.stage = "idle"
            /\ req'.stage = "done" /\ req'.status # 201)
        => UNCHANGED <<users, categories>> ]_vars

\* C30 (as claimed): the list, dashboard and report routes and GET
\* /api/categories answer every role with the principal's own rows only:
\* the expenses listed are the principal's, the categories listed are the
\* principal's, and so is every category embedded in a listed expense.
C30_ListsOwnerScoped ==
    /\ (Done /\ req.route \in ListRoutes /\ req.handler /\ req.status = 200) =>
          /\ req.rows = {id \in DOMAIN expenses : expenses[id].userId = req.principal}
          /\ \A c \in req.joined : categories[c].userId = req.principal
    /\ (Done /\ req.route = "GET /api/categories" /\ req.handler) =>
          req.rows = {id \in DOMAIN categories : categories[id].userId = req.principal}

====
